---- MODULE Spec2Model ----
(***************************************************************************)
(* Model of the Keboola Query Service client (src/src/client.ts):          *)
(*   - Client.request: one logical request, retried on transient failures  *)
(*   - Client.waitForJob: the job poller built on getJobStatus/request     *)
(* Every await of the source is one suspension point of the model; the     *)
(* synchronous code between two awaits is one atomic step.                 *)
(***************************************************************************)
EXTENDS Integers, Sequences, FiniteSets, TLC

(***************************************************************************)
(* Bounds of the model                                                     *)
(***************************************************************************)
\* largest configured maxRetries explored for a direct request
MaxRetries == 8
\* largest configured maxRetries explored when the request runs inside waitForJob
MaxRetriesPolling == 1
\* largest number of status fetches of one waitForJob explored
MaxPolls == 4
\* the clock (ms) saturates here; every maxWaitTime explored is below it
ClockCap == 5

(***************************************************************************)
(* Program constants                                                       *)
(***************************************************************************)
BackoffBaseMs == 100
BackoffCapMs == 10000
DEFAULT_MAX_RETRIES == 3
DEFAULT_TIMEOUT == 120000

Min(a, b) == IF a <= b THEN a ELSE b

\* JavaScript null / undefined
Null == "null"
Undefined == "undefined"

(***************************************************************************)
(* The remote service as seen through fetch                                *)
(***************************************************************************)
\* HTTP statuses a response can carry
Statuses == {200, 400, 401, 404, 409, 429, 500}

ExceptionBody == "{\"exception\":\"Invalid token\"}"
NullExceptionBody == "{\"exception\":null}"
EmptyObjectBody == "{}"
PlainTextBody == "Bad Gateway"
NullBody == "null"
EmptyBody == ""
JobIdBody == "{\"queryJobId\":\"job-123\"}"

\* bodies an error response (status >= 400) can carry
ErrorBodies == {ExceptionBody, NullExceptionBody, EmptyObjectBody, PlainTextBody, NullBody}

\* samples of Math.random() * 100, a real number in [0, 100)
JitterSamples == {0, 37, 99}

(***************************************************************************)
(* Job snapshots served by GET /api/v1/queries/{id}                        *)
(***************************************************************************)
JobStates == {"created", "enqueued", "processing", "canceled", "completed", "failed"}

StatusBody(s) == "{\"status\":\"" \o s \o "\"}"
StatusBodies == {StatusBody(s) : s \in JobStates}

\* failed jobs whose statements are in several states
FailedMixedBody ==
  "{\"status\":\"failed\",\"statements\":[completed,failed:\"SQL error\",notExecuted]}"
FailedNoMessageBody ==
  "{\"status\":\"failed\",\"statements\":[failed,canceled,failed:\"Second error\"]}"
FailedNoStatementBody == "{\"status\":\"failed\",\"statements\":[waiting]}"
FailedBodies == {FailedMixedBody, FailedNoMessageBody, FailedNoStatementBody}

\* a completed job of two statements
CompletedTwoBody == "{\"status\":\"completed\",\"statements\":[completed,completed]}"

\* result pages served by GET /api/v1/queries/{id}/{statementId}/results
ResultBodyOne == "{\"columns\":[\"result\"],\"data\":[[1]]}"
ResultBodyTwo == "{\"columns\":[\"id\",\"name\"],\"data\":[[1,\"Alice\"],[2,\"Bob\"]]}"
ResultBodies == {ResultBodyOne, ResultBodyTwo}

\* bodies a response with status < 400 can carry
SuccessBodies ==
  {JobIdBody, EmptyBody, NullBody, CompletedTwoBody} \cup StatusBodies \cup FailedBodies
    \cup ResultBodies

\* one Statement of a snapshot (src/types.ts)
Statement(id, state, error) == [id |-> id, status |-> state, error |-> error]

\* the statements array of a failed job's body
FailedJobStatements(text) ==
  CASE text = FailedMixedBody ->
         << Statement("stmt-1", "completed", Undefined),
            Statement("stmt-2", "failed", "SQL error"),
            Statement("stmt-3", "notExecuted", Undefined) >>
    [] text = FailedNoMessageBody ->
         << Statement("stmt-1", "failed", Undefined),
            Statement("stmt-2", "canceled", Undefined),
            Statement("stmt-3", "failed", "Second error") >>
    [] OTHER -> << Statement("stmt-1", "waiting", Undefined) >>

\* the statements array of the snapshot with the given job state
StatementsOf(s) ==
  CASE s = "failed" -> << [id |-> "stmt-1", status |-> "failed", error |-> "SQL error"] >>
    [] s = "completed" -> << [id |-> "stmt-1", status |-> "completed", error |-> Undefined] >>
    [] OTHER -> << >>

\* JSON.parse: the parsed value, or the SyntaxError it throws
JSONParse(text) ==
  CASE text = ExceptionBody -> [type |-> "object", exception |-> "Invalid token"]
    [] text = NullExceptionBody -> [type |-> "object", exception |-> Null]
    [] text = EmptyObjectBody -> [type |-> "object"]
    [] text = JobIdBody -> [type |-> "object", queryJobId |-> "job-123"]
    [] text = NullBody -> [type |-> "null"]
    [] text = CompletedTwoBody ->
         [type |-> "object", queryJobId |-> "job-123", status |-> "completed",
          statements |-> << Statement("stmt-1", "completed", Undefined),
                            Statement("stmt-2", "completed", Undefined) >>]
    [] text = ResultBodyOne ->
         [type |-> "object", columns |-> <<"result">>, data |-> << <<"1">> >>]
    [] text = ResultBodyTwo ->
         [type |-> "object", columns |-> <<"id", "name">>,
          data |-> << <<"1", "Alice">>, <<"2", "Bob">> >>]
    [] text \in FailedBodies ->
         [type |-> "object", queryJobId |-> "job-123", status |-> "failed",
          statements |-> FailedJobStatements(text)]
    [] text \in StatusBodies ->
         LET s == CHOOSE st \in JobStates : StatusBody(st) = text
         IN [type |-> "object", queryJobId |-> "job-123", status |-> s,
             statements |-> StatementsOf(s)]
    [] OTHER -> [type |-> "SyntaxError"]

\* property read obj[f] on a parsed object: undefined when absent
Field(obj, f) == IF f \in DOMAIN obj THEN obj[f] ELSE Undefined

(***************************************************************************)
(* Errors (src/errors.ts)                                                  *)
(***************************************************************************)
NoValue == [type |-> "none"]
NoStatus == 0

\* an Error object: class name, message, statusCode
\* message = text, or the template "Request failed after <attempts> attempts: <cause>"
MkError(kind, text, attempts, cause, statusCode) ==
  [kind |-> kind, text |-> text, attempts |-> attempts, cause |-> cause,
   statusCode |-> statusCode, jobId |-> "", failedStatements |-> << >>, value |-> NoValue]

QueryServiceError(text, statusCode) == MkError("QueryServiceError", text, 0, "", statusCode)
AuthenticationError(text, statusCode) == MkError("AuthenticationError", text, 0, "", statusCode)
ValidationError(text, statusCode) == MkError("ValidationError", text, 0, "", statusCode)
NotFoundError(text, statusCode) == MkError("NotFoundError", text, 0, "", statusCode)
JobError(text, jobId, failedStatements) ==
  [MkError("JobError", text, 0, "", NoStatus) EXCEPT
     !.jobId = jobId, !.failedStatements = failedStatements]
JobTimeoutError(text, jobId) ==
  [MkError("JobTimeoutError", text, 0, "", NoStatus) EXCEPT !.jobId = jobId]
\* errors that are not of the SDK: TypeError, SyntaxError, AbortError
RawError(name, text) == MkError(name, text, 0, "", NoStatus)

\* the classes for which `e instanceof QueryServiceError` holds
ServiceErrorKinds ==
  {"QueryServiceError", "AuthenticationError", "ValidationError", "NotFoundError",
   "JobError", "JobTimeoutError"}
IsQueryServiceError(e) == e.kind \in ServiceErrorKinds

FetchFailed == RawError("TypeError", "fetch failed")
AbortError == RawError("AbortError", "This operation was aborted")
BodyReadFailed == RawError("TypeError", "terminated")
JsonSyntaxError == RawError("SyntaxError", "Unexpected end of JSON input")
NullDereference == RawError("TypeError", "Cannot read properties of null")
BodyUnusable == RawError("TypeError", "Body is unusable")

NoError == RawError("none", "")
NoResponse == [status |-> NoStatus, body |-> ""]

\* a returned value as the result of a call
Returned(v) ==
  [kind |-> "ok", text |-> "", attempts |-> 0, cause |-> "", statusCode |-> NoStatus,
   jobId |-> "", failedStatements |-> << >>, value |-> v]
NoResult == MkError("pending", "", 0, "", NoStatus)

(***************************************************************************)
(* Client.handleError: the error it throws                                 *)
(***************************************************************************)
\* variant: the message is always the raw response text
HandleErrorRawText(statusCode, errorData, responseText) ==
  IF errorData.type = "null"
  THEN NullDereference
  ELSE IF statusCode = 401 THEN AuthenticationError(responseText, statusCode)
       ELSE IF statusCode = 400 THEN ValidationError(responseText, statusCode)
       ELSE IF statusCode = 404 THEN NotFoundError(responseText, statusCode)
       ELSE QueryServiceError(responseText, statusCode)

HandleError(statusCode, errorData, responseText) ==
  IF errorData.type = "null"
  THEN NullDereference
  ELSE LET exc == Field(errorData, "exception")
           message == IF exc \notin {Null, Undefined} THEN exc ELSE responseText
       IN IF statusCode = 401 THEN AuthenticationError(message, statusCode)
          ELSE IF statusCode = 400 THEN ValidationError(message, statusCode)
          ELSE IF statusCode = 404 THEN NotFoundError(message, statusCode)
          ELSE QueryServiceError(message, statusCode)

\* let errorData = {}; try { errorData = JSON.parse(responseText) } catch {}
ParseErrorData(responseText) ==
  LET parsed == JSONParse(responseText)
  IN IF parsed.type = "SyntaxError" THEN [type |-> "object"] ELSE parsed

(***************************************************************************)
(* Retry policy of Client.request                                          *)
(***************************************************************************)
\* variant: the loop runs one attempt too many
LoopCondOffByOne(a, r) == a <= r + 1

\* for (let attempt = 0; attempt <= this.maxRetries; attempt++)
LoopCond(a, r) == a <= r

\* attempt < this.maxRetries
HasAttemptsLeft(a, r) == a < r

\* response.status >= 500 || response.status === 429
ShouldRetry(status) == status >= 500 \/ status = 429

\* response.status >= 400
IsErrorStatus(status) == status >= 400

\* variant: the exponential wait without its cap
WaitTimeUncapped(a) == (2 ^ a) * BackoffBaseMs

\* Math.min(Math.pow(2, attempt) * 100, 10000)
WaitTime(a) == Min((2 ^ a) * BackoffBaseMs, BackoffCapMs)

(***************************************************************************)
(* Poll policy of Client.waitForJob                                        *)
(***************************************************************************)
\* variant: only the queued states count as non-terminal
IsTerminalStateLoose(state) == state # "created" /\ state # "enqueued"

\* isTerminalState (src/types.ts)
IsTerminalState(state) == state = "completed" \/ state = "failed" \/ state = "canceled"

\* A poll interval is the number num / 2^den: the factor 1.5 leaves the integers.
Interval(ms) == [num |-> ms, den |-> 0]

\* Math.min(pollInterval * 1.5, pollIntervalMax)
NextPollInterval(i, max) ==
  IF 3 * i.num >= max * (2 ^ (i.den + 1))
  THEN Interval(max)
  ELSE [num |-> 3 * i.num, den |-> i.den + 1]

\* variant: the wait has no deadline
DeadlineIgnored(elapsed, maxWait) == FALSE

\* variant: the deadline is reached only once it is exceeded
DeadlineReachedStrict(elapsed, maxWait) == elapsed > maxWait

\* elapsed >= maxWaitTime
DeadlineReached(elapsed, maxWait) == elapsed >= maxWait

\* the whole milliseconds a timer of i ms waits at least
TimerMs(i) == i.num \div (2 ^ i.den)

\* variant: every statement that did not complete counts as failed
FailedStatementsNotCompleted(statements) ==
  LET failed == SelectSeq(statements, LAMBDA s : s.status # "completed")
  IN [i \in 1..Len(failed) |-> [id |-> failed[i].id, error |-> failed[i].error]]

\* status.statements.filter((s) => s.status === "failed").map((s) => ({id, error}))
FailedStatements(statements) ==
  LET failed == SelectSeq(statements, LAMBDA s : s.status = "failed")
  IN [i \in 1..Len(failed) |-> [id |-> failed[i].id, error |-> failed[i].error]]

\* failedStatements[0]?.error ?? "Job failed"
FirstError(failedStatements) ==
  IF Len(failedStatements) > 0 /\ failedStatements[1].error \notin {Null, Undefined}
  THEN failedStatements[1].error
  ELSE "Job failed"

VARIABLES
  maxRetries,     \* this.maxRetries (readonly)
  pc,             \* where request() is suspended
  attempt,        \* loop variable of request()
  response,       \* status of the response of the attempt in flight
  lastResponse,   \* request(): lastResponse
  lastError,      \* request(): lastError
  timerArmed,     \* the setTimeout of the attempt is pending
  overdue,        \* the attempt is in flight and `timeout` ms have passed
  sleepMs,        \* argument of the pending sleep()
  result,         \* what request() returned or threw
  nAttempts,      \* history: fetch calls issued by this request
  nSleeps,        \* history: sleeps started by this request
  lastOutcome,    \* history: how the most recent attempt ended
  priorTransient, \* history: every attempt before the current one was transient
  op,             \* the public operation the caller invoked
  now,            \* Date.now(), saturating at ClockCap
  wpc,            \* where waitForJob() is suspended
  queryJobId,     \* options.queryJobId
  maxWaitTime,    \* waitForJob(): maxWaitTime
  pollIntervalStart, \* waitForJob(): pollIntervalStart
  pollIntervalMax,   \* waitForJob(): pollIntervalMax
  startTime,      \* waitForJob(): startTime
  pollInterval,   \* waitForJob(): pollInterval
  wresult,        \* what waitForJob() returned or threw
  nFetches,       \* history: getJobStatus calls of this waitForJob
  pollSleeps      \* history: the poll intervals slept, in order

reqVars == <<pc, attempt, response, lastResponse, lastError, timerArmed, overdue,
             sleepMs, result, nAttempts, nSleeps, lastOutcome, priorTransient>>
cfgVars == <<maxRetries, op, queryJobId, maxWaitTime, pollIntervalStart, pollIntervalMax>>
waitVars == <<wpc, startTime, pollInterval, wresult, nFetches, pollSleeps>>

VARIABLES
  cancelled,      \* the caller of waitForJob() has given up waiting
  suspended       \* the locals of the caller's other request(), suspended at its await

VARIABLES
  spc,            \* where the streamResults() generator stands
  sresponse,      \* response.status of the stream request
  stream,         \* the bytes of the response body
  swire,          \* the bytes reader.read() has not delivered yet
  decoderPending, \* the bytes the TextDecoder holds back between chunks
  buffer,         \* buffer
  lines,          \* the lines the for-of loop has not visited yet
  atEnd,          \* the generator is in the `done` branch
  yielded,        \* the records handed to the consumer so far
  readerLock,     \* the lock the reader holds on response.body
  nReads,         \* the chunks reader.read() has delivered
  nReleases,      \* the calls of reader.releaseLock()
  nStreamFetches, \* the calls of fetch() streamResults() has made
  sresult         \* how the generator ended

VARIABLES
  baseUrl,        \* this.baseUrl (readonly)
  token,          \* this.token (readonly)
  timeout,        \* this.timeout (readonly)
  userAgent       \* this.userAgent (readonly)

VARIABLES
  epc,            \* where executeQuery() stands
  jobId,          \* jobId
  finalStatus,    \* status, the snapshot waitForJob() returned
  results,        \* results
  eresult,        \* how executeQuery() ended
  calls           \* the endpoint methods executeQuery() has called, in order

callerVars == <<cancelled, suspended>>
clientVars == <<baseUrl, token, timeout, userAgent>>
execVars == <<epc, jobId, finalStatus, results, eresult, calls>>
streamVars == <<spc, sresponse, stream, swire, decoderPending, buffer, lines, atEnd,
                yielded, readerLock, nReads, nReleases, nStreamFetches, sresult>>
\* what neither request() nor waitForJob() touches
outsideVars == <<callerVars, streamVars, clientVars, execVars>>
vars == <<cfgVars, reqVars, now, waitVars, outsideVars>>

\* no body has been read
Unread == "<unread>"

\* how an attempt ended: the status received (if any), the body read (if any)
\* and the error caught (if any)
Outcome(status, body, err) == [status |-> status, body |-> body, error |-> err]
NoOutcome == Outcome(NoStatus, Unread, NoError)

\* a transient failure: status >= 500, 429, or a network / abort error
IsTransient(o) ==
  \/ o.status # NoStatus /\ (o.status >= 500 \/ o.status = 429)
  \/ o.status = NoStatus /\ o.error # NoError

(***************************************************************************)
(* Steps of Client.request                                                 *)
(***************************************************************************)
\* request() ends by throwing e
Throw(e) ==
  /\ pc' = "thrown"
  /\ result' = e
  /\ UNCHANGED <<attempt, response, timerArmed, sleepMs, nAttempts, nSleeps, priorTransient>>

\* lines 128-136: new AbortController, setTimeout, fetch(...) of attempt a;
\* prev is how the attempt before it ended
IssueFetch(a, prev) ==
  /\ pc' = "fetch"
  /\ attempt' = a
  /\ timerArmed' = TRUE
  /\ response' = NoStatus
  /\ nAttempts' = nAttempts + 1
  /\ priorTransient' = (priorTransient /\ IsTransient(prev))
  /\ lastOutcome' = NoOutcome
  /\ UNCHANGED <<sleepMs, nSleeps, result>>

\* lines 181-194: after the loop
AfterLoop(lr, le, prev) ==
  /\ lastOutcome' = prev
  /\ IF lr # NoResponse /\ lr.status >= 400
     THEN /\ pc' = "lastText"
          /\ UNCHANGED <<attempt, response, timerArmed, sleepMs, result, nAttempts, nSleeps,
                         priorTransient>>
     ELSE Throw(MkError("QueryServiceError", "Request failed after", maxRetries + 1,
                        IF le = NoError THEN "Unknown error" ELSE le.text, NoStatus))

\* the loop head for attempt a
EnterLoop(a, lr, le, prev) ==
  IF LoopCond(a, maxRetries) THEN IssueFetch(a, prev) ELSE AfterLoop(lr, le, prev)

\* lines 155-158 and 173-176: await sleep(waitTime + jitter)
StartSleep ==
  /\ \E jitter \in JitterSamples : sleepMs' = WaitTime(attempt) + jitter
  /\ pc' = "sleep"
  /\ nSleeps' = nSleeps + 1
  /\ UNCHANGED <<attempt, response, timerArmed, result, nAttempts, priorTransient>>

\* lines 165-178: catch (error) of an attempt that received `status` and `body` (if any)
Catch(error, status, body) ==
  /\ overdue' = FALSE
  /\ UNCHANGED lastResponse
  /\ IF IsQueryServiceError(error)
     THEN /\ Throw(error)
          /\ lastOutcome' = Outcome(status, body, error)
          /\ UNCHANGED lastError
     ELSE /\ lastError' = error
          /\ IF HasAttemptsLeft(attempt, maxRetries)
             THEN StartSleep /\ lastOutcome' = Outcome(status, body, error)
             ELSE EnterLoop(attempt + 1, lastResponse, error, Outcome(status, body, error))

\* variant: the last response of the call before is kept when request() starts
BeginRequestKeepingLastResponse ==
  /\ lastError' = NoError
  /\ lastResponse' = lastResponse
  /\ overdue' = FALSE
  /\ lastOutcome' = NoOutcome
  /\ sleepMs' = 0
  /\ nSleeps' = 0
  /\ IF LoopCond(0, maxRetries)
     THEN /\ pc' = "fetch"
          /\ attempt' = 0
          /\ timerArmed' = TRUE
          /\ response' = NoStatus
          /\ nAttempts' = 1
          /\ priorTransient' = TRUE
          /\ result' = NoResult
     ELSE /\ pc' = "thrown"
          /\ result' = MkError("QueryServiceError", "Request failed after", maxRetries + 1,
                               "Unknown error", NoStatus)
          /\ attempt' = 0
          /\ timerArmed' = FALSE
          /\ response' = NoStatus
          /\ nAttempts' = 0
          /\ priorTransient' = TRUE

\* lines 113-131: request() starts: fresh locals, then the first attempt
BeginRequest ==
  /\ lastError' = NoError
  /\ lastResponse' = NoResponse
  /\ overdue' = FALSE
  /\ lastOutcome' = NoOutcome
  /\ sleepMs' = 0
  /\ nSleeps' = 0
  /\ IF LoopCond(0, maxRetries)
     THEN /\ pc' = "fetch"
          /\ attempt' = 0
          /\ timerArmed' = TRUE
          /\ response' = NoStatus
          /\ nAttempts' = 1
          /\ priorTransient' = TRUE
          /\ result' = NoResult
     ELSE /\ pc' = "thrown"
          /\ result' = MkError("QueryServiceError", "Request failed after", maxRetries + 1,
                               "Unknown error", NoStatus)
          /\ attempt' = 0
          /\ timerArmed' = FALSE
          /\ response' = NoStatus
          /\ nAttempts' = 0
          /\ priorTransient' = TRUE

\* an endpoint method (submitJob, getJobStatus, getJobResults, cancelJob,
\* getQueryHistory) calls request()
Call ==
  /\ op = "request"
  /\ pc = "idle"
  /\ BeginRequest
  /\ UNCHANGED <<cfgVars, now, waitVars, outsideVars>>

\* line 131: fetch rejects (connection refused, DNS failure, reset)
FetchRejects ==
  /\ pc = "fetch"
  /\ Catch(FetchFailed, NoStatus, Unread)
  /\ UNCHANGED <<cfgVars, now, waitVars, outsideVars>>

\* `timeout` ms have passed since the attempt was issued: the timer, if still
\* pending, aborts the attempt
TimeoutElapses ==
  /\ pc \in {"fetch", "text", "json"}
  /\ ~overdue
  /\ IF timerArmed
     THEN Catch(AbortError, response, Unread)
     ELSE /\ overdue' = TRUE
          /\ UNCHANGED <<pc, attempt, response, lastResponse, lastError, timerArmed,
                         sleepMs, result, nAttempts, nSleeps, lastOutcome, priorTransient>>
  /\ UNCHANGED <<cfgVars, now, waitVars, outsideVars>>

\* lines 131-144 / 164: fetch resolves with a response; clearTimeout; the body is awaited
FetchResolves ==
  /\ pc = "fetch"
  /\ \E status \in Statuses :
       /\ response' = status
       /\ pc' = IF IsErrorStatus(status) THEN "text" ELSE "json"
  /\ timerArmed' = FALSE
  /\ UNCHANGED <<attempt, lastResponse, lastError, overdue, sleepMs, result,
                 nAttempts, nSleeps, lastOutcome, priorTransient>>
  /\ UNCHANGED <<cfgVars, now, waitVars, outsideVars>>

\* line 144: response.text() rejects (the connection breaks while the body is read)
TextRejects ==
  /\ pc = "text"
  /\ Catch(BodyReadFailed, response, Unread)
  /\ UNCHANGED <<cfgVars, now, waitVars, outsideVars>>

\* lines 144-162: response.text() resolves
TextResolves ==
  /\ pc = "text"
  /\ \E responseText \in ErrorBodies :
       LET errorData == ParseErrorData(responseText)
       IN IF ShouldRetry(response) /\ HasAttemptsLeft(attempt, maxRetries)
          THEN /\ lastResponse' = [status |-> response, body |-> responseText]
               /\ lastOutcome' = Outcome(response, responseText, NoError)
               /\ overdue' = FALSE
               /\ StartSleep
               /\ UNCHANGED lastError
          ELSE Catch(HandleError(response, errorData, responseText), response, responseText)
  /\ UNCHANGED <<cfgVars, now, waitVars, outsideVars>>

\* line 164: response.json() rejects: the body cannot be read or is not JSON
JsonRejects ==
  /\ pc = "json"
  /\ \E body \in SuccessBodies \cup {Null} :
       /\ body # Null => JSONParse(body).type = "SyntaxError"
       /\ Catch(IF body = Null THEN BodyReadFailed ELSE JsonSyntaxError, response,
                IF body = Null THEN Unread ELSE body)
  /\ UNCHANGED <<cfgVars, now, waitVars, outsideVars>>

\* line 164: return (await response.json()) as T
JsonResolves ==
  /\ pc = "json"
  /\ \E body \in SuccessBodies :
       /\ JSONParse(body).type # "SyntaxError"
       /\ result' = Returned(JSONParse(body))
       /\ lastOutcome' = Outcome(response, body, NoError)
  /\ pc' = "returned"
  /\ overdue' = FALSE
  /\ UNCHANGED <<attempt, response, lastResponse, lastError, timerArmed,
                 sleepMs, nAttempts, nSleeps, priorTransient>>
  /\ UNCHANGED <<cfgVars, now, waitVars, outsideVars>>

\* lines 157-158 / 175-176: the sleep ends after at least sleepMs; continue with the
\* next attempt
SleepResolves ==
  /\ pc = "sleep"
  /\ now' = Min(now + sleepMs, ClockCap)
  /\ EnterLoop(attempt + 1, lastResponse, lastError, lastOutcome)
  /\ UNCHANGED <<lastResponse, lastError, overdue>>
  /\ UNCHANGED <<cfgVars, waitVars, outsideVars>>

\* lines 182-189: await lastResponse.text() on a body that line 144 has read already.
\* A fetch Response rejects the second read with a TypeError, which leaves request()
\* as it is; a response object whose text() can be called again serves the same text.
LastTextSettles ==
  /\ pc = "lastText"
  /\ \E rereadable \in BOOLEAN :
       IF rereadable
       THEN Throw(HandleError(lastResponse.status, ParseErrorData(lastResponse.body),
                              lastResponse.body))
       ELSE Throw(BodyUnusable)
  /\ UNCHANGED <<lastResponse, lastError, overdue, lastOutcome>>
  /\ UNCHANGED <<cfgVars, now, waitVars, outsideVars>>

(***************************************************************************)
(* Steps of Client.waitForJob                                              *)
(***************************************************************************)
\* waitForJob() ends with r
WaitEnds(how, r) ==
  /\ wpc' = how
  /\ wresult' = r
  /\ UNCHANGED <<startTime, pollInterval, nFetches, pollSleeps>>

\* variant: waitForJob() sleeps before its first status fetch
WaitForJobSleepingFirst ==
  /\ op = "waitForJob"
  /\ wpc = "idle"
  /\ startTime' = now
  /\ pollInterval' = Interval(pollIntervalStart)
  /\ wpc' = "sleep"
  /\ pollSleeps' = <<Interval(pollIntervalStart)>>
  /\ UNCHANGED <<cfgVars, reqVars, now, wresult, nFetches, outsideVars>>

\* lines 303-312: waitForJob() is called and fetches the status at once
WaitForJob ==
  /\ op = "waitForJob"
  /\ wpc = "idle"
  /\ startTime' = now
  /\ pollInterval' = Interval(pollIntervalStart)
  /\ wpc' = "fetch"
  /\ nFetches' = 1
  /\ BeginRequest
  /\ UNCHANGED <<cfgVars, now, wresult, pollSleeps, outsideVars>>

\* time passes while the status fetch is under way
TimePasses ==
  /\ wpc = "fetch"
  /\ pc \in {"fetch", "text", "json"}
  /\ now < ClockCap
  /\ now' = now + 1
  /\ UNCHANGED <<cfgVars, reqVars, waitVars, outsideVars>>

\* variant: the deadline is examined before the job state
StatusResolvesDeadlineFirst ==
  /\ wpc = "fetch"
  /\ pc = "returned"
  /\ LET status == result.value
         state == Field(status, "status")
     IN IF status.type = "null"
        THEN WaitEnds("thrown", NullDereference)
        ELSE IF DeadlineReached(now - startTime, maxWaitTime)
        THEN WaitEnds("thrown", JobTimeoutError("Job did not complete within", queryJobId))
        ELSE IF IsTerminalState(state)
        THEN IF state = "failed"
             THEN LET failedStatements == FailedStatements(status.statements)
                  IN WaitEnds("thrown", JobError(FirstError(failedStatements), queryJobId,
                                                 failedStatements))
             ELSE WaitEnds("returned", Returned(status))
        ELSE /\ wpc' = "sleep"
             /\ pollSleeps' = Append(pollSleeps, pollInterval)
             /\ UNCHANGED <<startTime, pollInterval, wresult, nFetches>>
  /\ UNCHANGED <<cfgVars, reqVars, now, outsideVars>>

\* lines 312-336: getJobStatus() returned a snapshot
StatusResolves ==
  /\ wpc = "fetch"
  /\ pc = "returned"
  /\ LET status == result.value
         state == Field(status, "status")
     IN IF status.type = "null"
        THEN WaitEnds("thrown", NullDereference)
        ELSE IF IsTerminalState(state)
        THEN IF state = "failed"
             THEN LET failedStatements == FailedStatements(status.statements)
                  IN WaitEnds("thrown", JobError(FirstError(failedStatements), queryJobId,
                                                 failedStatements))
             ELSE WaitEnds("returned", Returned(status))
        ELSE IF DeadlineReached(now - startTime, maxWaitTime)
        THEN WaitEnds("thrown", JobTimeoutError("Job did not complete within", queryJobId))
        ELSE /\ wpc' = "sleep"
             /\ pollSleeps' = Append(pollSleeps, pollInterval)
             /\ UNCHANGED <<startTime, pollInterval, wresult, nFetches>>
  /\ UNCHANGED <<cfgVars, reqVars, now, outsideVars>>

\* variant: the poller swallows the error of a status fetch and polls again
StatusRejectsSwallowed ==
  /\ wpc = "fetch"
  /\ pc = "thrown"
  /\ wpc' = "sleep"
  /\ pollSleeps' = Append(pollSleeps, pollInterval)
  /\ UNCHANGED <<startTime, pollInterval, wresult, nFetches>>
  /\ UNCHANGED <<cfgVars, reqVars, now, outsideVars>>

\* line 312: getJobStatus() threw: the error leaves waitForJob()
StatusRejects ==
  /\ wpc = "fetch"
  /\ pc = "thrown"
  /\ WaitEnds("thrown", result)
  /\ UNCHANGED <<cfgVars, reqVars, now, outsideVars>>

\* lines 336-337 and 312: the poll sleep ends, the interval grows, the next fetch starts
PollSleepResolves ==
  /\ wpc = "sleep"
  /\ nFetches < MaxPolls
  /\ \E late \in {0, 1} : now' = Min(now + TimerMs(pollInterval) + late, ClockCap)
  /\ pollInterval' = NextPollInterval(pollInterval, pollIntervalMax)
  /\ wpc' = "fetch"
  /\ nFetches' = nFetches + 1
  /\ BeginRequest
  /\ UNCHANGED <<cfgVars, startTime, wresult, pollSleeps, outsideVars>>

(***************************************************************************)
(* Two calls of request() in flight on one client                          *)
(***************************************************************************)
\* the locals of the running request() and where it stands
Frame ==
  [pc |-> pc, attempt |-> attempt, response |-> response, lastResponse |-> lastResponse,
   lastError |-> lastError, timerArmed |-> timerArmed, overdue |-> overdue,
   sleepMs |-> sleepMs, result |-> result, nAttempts |-> nAttempts, nSleeps |-> nSleeps,
   lastOutcome |-> lastOutcome, priorTransient |-> priorTransient]

\* variant: the attempt counter is a field of the client that the calls share
ResumeOtherSharingAttempt ==
  /\ op = "request"
  /\ suspended' = Frame
  /\ pc' = suspended.pc
  /\ attempt' = attempt
  /\ response' = suspended.response
  /\ lastResponse' = suspended.lastResponse
  /\ lastError' = suspended.lastError
  /\ timerArmed' = suspended.timerArmed
  /\ overdue' = suspended.overdue
  /\ sleepMs' = suspended.sleepMs
  /\ result' = suspended.result
  /\ nAttempts' = suspended.nAttempts
  /\ nSleeps' = suspended.nSleeps
  /\ lastOutcome' = suspended.lastOutcome
  /\ priorTransient' = suspended.priorTransient
  /\ UNCHANGED cancelled
  /\ UNCHANGED <<cfgVars, now, waitVars, streamVars, clientVars, execVars>>

\* lines 53-55, 113-116, 131, 144, 157, 164: every await (fetch, text, json,
\* the setTimeout promise of sleep) hands control back to the event loop,
\* which runs the continuation of the other call next; each call has its own
\* attempt, lastError and lastResponse
ResumeOther ==
  /\ op = "request"
  /\ suspended' = Frame
  /\ pc' = suspended.pc
  /\ attempt' = suspended.attempt
  /\ response' = suspended.response
  /\ lastResponse' = suspended.lastResponse
  /\ lastError' = suspended.lastError
  /\ timerArmed' = suspended.timerArmed
  /\ overdue' = suspended.overdue
  /\ sleepMs' = suspended.sleepMs
  /\ result' = suspended.result
  /\ nAttempts' = suspended.nAttempts
  /\ nSleeps' = suspended.nSleeps
  /\ lastOutcome' = suspended.lastOutcome
  /\ priorTransient' = suspended.priorTransient
  /\ UNCHANGED cancelled
  /\ UNCHANGED <<cfgVars, now, waitVars, streamVars, clientVars, execVars>>

(***************************************************************************)
(* Steps of Client.executeQuery                                            *)
(***************************************************************************)
\* an endpoint method executeQuery() calls, with its arguments
CallOf(method, id, statementId) ==
  [method |-> method, queryJobId |-> id, statementId |-> statementId]

\* the array executeQuery() returns
ReturnedList(rs) == Returned([type |-> "array", items |-> rs])

\* executeQuery() ends with r
ExecEnds(how, r) ==
  /\ epc' = how
  /\ eresult' = r
  /\ UNCHANGED <<jobId, finalStatus, results, calls>>

\* lines 366-374: executeQuery() is called and calls submitJob()
ExecuteQuery ==
  /\ op = "executeQuery"
  /\ epc = "idle"
  /\ epc' = "submitJob"
  /\ calls' = <<CallOf("submitJob", "", "")>>
  /\ BeginRequest
  /\ UNCHANGED <<jobId, finalStatus, results, eresult>>
  /\ UNCHANGED <<cfgVars, now, waitVars, callerVars, streamVars, clientVars>>

\* lines 368 and 207, 302: submitJob()'s request threw
SubmitJobRejects ==
  /\ epc = "submitJob"
  /\ pc = "thrown"
  /\ ExecEnds("thrown", result)
  /\ UNCHANGED <<cfgVars, reqVars, now, waitVars, callerVars, streamVars, clientVars>>

\* lines 219, 368-380 and 303-312: submitJob() returns data.queryJobId and
\* waitForJob({queryJobId: jobId, maxWaitTime}) starts with its first fetch
SubmitJobResolves ==
  /\ epc = "submitJob"
  /\ pc = "returned"
  /\ LET data == result.value
     IN IF data.type = "null"
        THEN /\ ExecEnds("thrown", NullDereference)
             /\ UNCHANGED <<cfgVars, reqVars, waitVars>>
        ELSE LET id == Field(data, "queryJobId")
             IN /\ jobId' = id
                /\ epc' = "waitForJob"
                /\ calls' = Append(calls, CallOf("waitForJob", id, ""))
                /\ queryJobId' = id
                /\ startTime' = now
                /\ pollInterval' = Interval(pollIntervalStart)
                /\ wpc' = "fetch"
                /\ nFetches' = 1
                /\ BeginRequest
                /\ UNCHANGED <<finalStatus, results, eresult, wresult, pollSleeps, maxRetries,
                               op, maxWaitTime, pollIntervalStart, pollIntervalMax>>
  /\ UNCHANGED <<now, callerVars, streamVars, clientVars>>

\* line 377: waitForJob() threw
WaitForJobThrows ==
  /\ epc = "waitForJob"
  /\ wpc = "thrown"
  /\ ExecEnds("thrown", wresult)
  /\ UNCHANGED <<cfgVars, reqVars, now, waitVars, callerVars, streamVars, clientVars>>

\* lines 377-392: waitForJob() returned the snapshot; the loop over its
\* statements starts, or with no statement the empty list is returned
WaitForJobReturns ==
  /\ epc = "waitForJob"
  /\ wpc = "returned"
  /\ LET status == wresult.value
     IN /\ finalStatus' = status
        /\ IF status.statements = << >>
           THEN /\ epc' = "returned"
                /\ eresult' = ReturnedList(results)
                /\ UNCHANGED <<calls, reqVars>>
           ELSE /\ epc' = "getJobResults"
                /\ calls' = Append(calls, CallOf("getJobResults", jobId,
                                                 status.statements[1].id))
                /\ BeginRequest
                /\ UNCHANGED eresult
  /\ UNCHANGED <<jobId, results>>
  /\ UNCHANGED <<cfgVars, now, waitVars, callerVars, streamVars, clientVars>>

\* variant: the failure of a getJobResults() ends the loop and the results
\* fetched so far are returned
GetJobResultsRejectsPartial ==
  /\ epc = "getJobResults"
  /\ pc = "thrown"
  /\ ExecEnds("returned", ReturnedList(results))
  /\ UNCHANGED <<cfgVars, reqVars, now, waitVars, callerVars, streamVars, clientVars>>

\* line 385: getJobResults()'s request threw
GetJobResultsRejects ==
  /\ epc = "getJobResults"
  /\ pc = "thrown"
  /\ ExecEnds("thrown", result)
  /\ UNCHANGED <<cfgVars, reqVars, now, waitVars, callerVars, streamVars, clientVars>>

\* variant: a result is put in front of the results fetched before it
GetJobResultsResolvesUnshift ==
  /\ epc = "getJobResults"
  /\ pc = "returned"
  /\ LET rs == <<result.value>> \o results
         sts == finalStatus.statements
     IN /\ results' = rs
        /\ IF Len(rs) = Len(sts)
           THEN /\ epc' = "returned"
                /\ eresult' = ReturnedList(rs)
                /\ UNCHANGED <<calls, reqVars>>
           ELSE /\ epc' = "getJobResults"
                /\ calls' = Append(calls, CallOf("getJobResults", jobId, sts[Len(rs) + 1].id))
                /\ BeginRequest
                /\ UNCHANGED eresult
  /\ UNCHANGED <<jobId, finalStatus>>
  /\ UNCHANGED <<cfgVars, now, waitVars, callerVars, streamVars, clientVars>>

\* lines 384-392: getJobResults() returned; the result is pushed and the loop
\* goes on to the next statement or, after the last one, the list is returned
GetJobResultsResolves ==
  /\ epc = "getJobResults"
  /\ pc = "returned"
  /\ LET rs == Append(results, result.value)
         sts == finalStatus.statements
     IN /\ results' = rs
        /\ IF Len(rs) = Len(sts)
           THEN /\ epc' = "returned"
                /\ eresult' = ReturnedList(rs)
                /\ UNCHANGED <<calls, reqVars>>
           ELSE /\ epc' = "getJobResults"
                /\ calls' = Append(calls, CallOf("getJobResults", jobId, sts[Len(rs) + 1].id))
                /\ BeginRequest
                /\ UNCHANGED eresult
  /\ UNCHANGED <<jobId, finalStatus>>
  /\ UNCHANGED <<cfgVars, now, waitVars, callerVars, streamVars, clientVars>>

(***************************************************************************)
(* Client.streamResults: the NDJSON decoder                                *)
(***************************************************************************)
\* the longest response body explored
MaxStreamLen == 4

\* the bytes of a body: one-byte characters and the two bytes of a two-byte
\* UTF-8 character
Digit == "1"
Space == " "
Newline == "\n"
Quote == "\""
LeadByte == "0xC3"
ContinuationByte == "0xA9"
Bytes == {Digit, Space, Newline, Quote, LeadByte, ContinuationByte}

\* the characters the two-byte sequence and a malformed sequence decode to
TwoByteChar == "U+00E9"
ReplacementChar == "U+FFFD"

RECURSIVE SeqsOver(_, _)
SeqsOver(S, n) ==
  IF n = 0
  THEN {<< >>}
  ELSE LET shorter == SeqsOver(S, n - 1)
       IN shorter \cup {Append(q, b) : q \in {r \in shorter : Len(r) = n - 1}, b \in S}

\* longer bodies: a string with a two-byte character before a number, two
\* numbers around a whitespace-only line, two numbers around a malformed line
LongStreams ==
  { <<Quote, LeadByte, ContinuationByte, Quote, Newline, Digit>>,
    <<Digit, Newline, Space, Newline, Digit, Digit>>,
    <<Digit, Newline, Quote, Newline, Digit, Newline>> }

\* the bodies explored: every short one and the longer ones
ByteStreams == SeqsOver(Bytes, MaxStreamLen) \cup LongStreams

\* variant: every chunk is decoded on its own, without { stream: true }
RECURSIVE DecodeChunkAlone(_, _)
DecodeChunkAlone(held, bytes) ==
  IF bytes = << >>
  THEN [text |-> IF held = << >> THEN << >> ELSE <<ReplacementChar>>, pending |-> << >>]
  ELSE LET b == Head(bytes)
           rest == Tail(bytes)
           Emit(chars, h) == LET d == DecodeChunkAlone(h, rest)
                             IN [text |-> chars \o d.text, pending |-> d.pending]
       IN IF held = << >>
          THEN IF b = LeadByte THEN Emit(<< >>, <<b>>)
               ELSE IF b = ContinuationByte THEN Emit(<<ReplacementChar>>, << >>)
               ELSE Emit(<<b>>, << >>)
          ELSE IF b = ContinuationByte THEN Emit(<<TwoByteChar>>, << >>)
               ELSE IF b = LeadByte THEN Emit(<<ReplacementChar>>, <<b>>)
               ELSE Emit(<<ReplacementChar, b>>, << >>)

\* decoder.decode(value, { stream: true }): the characters of a chunk, given the
\* bytes held back from the chunks before it, and the bytes held back after it
RECURSIVE DecodeChunk(_, _)
DecodeChunk(held, bytes) ==
  IF bytes = << >>
  THEN [text |-> << >>, pending |-> held]
  ELSE LET b == Head(bytes)
           rest == Tail(bytes)
           Emit(chars, h) == LET d == DecodeChunk(h, rest)
                             IN [text |-> chars \o d.text, pending |-> d.pending]
       IN IF held = << >>
          THEN IF b = LeadByte THEN Emit(<< >>, <<b>>)
               ELSE IF b = ContinuationByte THEN Emit(<<ReplacementChar>>, << >>)
               ELSE Emit(<<b>>, << >>)
          ELSE IF b = ContinuationByte THEN Emit(<<TwoByteChar>>, << >>)
               ELSE IF b = LeadByte THEN Emit(<<ReplacementChar>>, <<b>>)
               ELSE Emit(<<ReplacementChar, b>>, << >>)

\* buffer.split("\n")
RECURSIVE Split(_)
Split(text) ==
  LET breaks == {i \in 1..Len(text) : text[i] = Newline}
  IN IF breaks = {}
     THEN <<text>>
     ELSE LET i == CHOOSE j \in breaks : \A k \in breaks : j <= k
          IN <<SubSeq(text, 1, i - 1)>> \o Split(SubSeq(text, i + 1, Len(text)))

\* variant: trim() that strips nothing
TrimNothing(text) == text

\* String.prototype.trim
RECURSIVE Trim(_)
Trim(text) ==
  IF text = << >> THEN << >>
  ELSE IF Head(text) = Space THEN Trim(Tail(text))
  ELSE IF text[Len(text)] = Space THEN Trim(SubSeq(text, 1, Len(text) - 1))
  ELSE text

\* JSON.parse of a line: insignificant whitespace around the value is skipped;
\* the value is a number or a string
JSONParseLine(text) ==
  LET ink == {i \in 1..Len(text) : text[i] # Space}
      first == CHOOSE i \in ink : \A k \in ink : i <= k
      last == CHOOSE i \in ink : \A k \in ink : k <= i
      value == SubSeq(text, first, last)
      IsNumber == \A i \in 1..Len(value) : value[i] = Digit
      IsString == /\ Len(value) >= 2
                  /\ value[1] = Quote
                  /\ value[Len(value)] = Quote
                  /\ \A i \in 2..(Len(value) - 1) : value[i] # Quote
  IN IF ink # {} /\ (IsNumber \/ IsString)
     THEN [type |-> "value", json |-> value]
     ELSE [type |-> "SyntaxError"]

\* variant: blank lines are not skipped
SkipBlankNever(ls) == ls

\* the lines left once the for-of loop has passed those with an empty trim()
RECURSIVE SkipBlank(_)
SkipBlank(ls) ==
  IF ls = << >> THEN << >>
  ELSE IF Trim(Head(ls)) = << >> THEN SkipBlank(Tail(ls))
  ELSE ls

\* the generator ends by throwing e; nothing has been read
StreamThrows(e) ==
  /\ spc' = "failed"
  /\ sresult' = e
  /\ UNCHANGED <<sresponse, stream, swire, decoderPending, buffer, lines, atEnd, yielded,
                 readerLock, nReads, nReleases>>

\* the lines left once blank lines and lines that do not parse are passed
RECURSIVE SkipUnparsed(_)
SkipUnparsed(ls) ==
  IF ls = << >> THEN << >>
  ELSE IF Trim(Head(ls)) = << >> \/ JSONParseLine(Head(ls)).type = "SyntaxError"
  THEN SkipUnparsed(Tail(ls))
  ELSE ls

\* variant: a line that does not parse is passed over
RunLinesSkippingFailures(ls, end) ==
  LET rest == SkipUnparsed(ls)
  IN /\ atEnd' = end
     /\ sresult' = sresult
     /\ IF rest = << >>
        THEN /\ lines' = << >>
             /\ yielded' = yielded
             /\ IF end
                THEN spc' = "done" /\ readerLock' = "released" /\ nReleases' = nReleases + 1
                ELSE spc' = "read" /\ UNCHANGED <<readerLock, nReleases>>
        ELSE /\ spc' = "yield"
             /\ yielded' = Append(yielded, JSONParseLine(Head(rest)).json)
             /\ lines' = Tail(rest)
             /\ UNCHANGED <<readerLock, nReleases>>

\* lines 460-464 and 449-454: the generator runs on through the lines ls until
\* it yields a record, throws, waits for the next chunk or, in the `done`
\* branch (end), finishes; lines 466-468 release the reader when it leaves
RunLines(ls, end) ==
  LET rest == SkipBlank(ls)
  IN /\ atEnd' = end
     /\ IF rest = << >>
        THEN /\ lines' = << >>
             /\ yielded' = yielded
             /\ sresult' = sresult
             /\ IF end
                THEN spc' = "done" /\ readerLock' = "released" /\ nReleases' = nReleases + 1
                ELSE spc' = "read" /\ UNCHANGED <<readerLock, nReleases>>
        ELSE LET parsed == JSONParseLine(Head(rest))
             IN IF parsed.type = "SyntaxError"
                THEN /\ spc' = "failed"
                     /\ sresult' = JsonSyntaxError
                     /\ readerLock' = "released"
                     /\ nReleases' = nReleases + 1
                     /\ lines' = << >>
                     /\ yielded' = yielded
                ELSE /\ spc' = "yield"
                     /\ yielded' = Append(yielded, parsed.json)
                     /\ lines' = Tail(rest)
                     /\ UNCHANGED <<sresult, readerLock, nReleases>>

\* lines 409-412: streamResults() is called: an async generator function
\* returns its generator without running any of its body
StreamResultsCalled ==
  /\ op = "streamResults"
  /\ spc = "idle"
  /\ spc' = "suspendedStart"
  /\ UNCHANGED <<sresponse, stream, swire, decoderPending, buffer, lines, atEnd, yielded,
                 readerLock, nReads, nReleases, sresult>>
  /\ UNCHANGED <<cfgVars, reqVars, now, waitVars, callerVars, clientVars, execVars,
                 nStreamFetches>>

\* the consumer gives the generator up before asking for a record: return()
\* on a generator that has not started completes it without running its body
ConsumerReturnsUnstarted ==
  /\ spc = "suspendedStart"
  /\ spc' = "closed"
  /\ UNCHANGED <<sresponse, stream, swire, decoderPending, buffer, lines, atEnd, yielded,
                 readerLock, nReads, nReleases, sresult>>
  /\ UNCHANGED <<cfgVars, reqVars, now, waitVars, callerVars, clientVars, execVars,
                 nStreamFetches>>

\* lines 409-422: the consumer asks for the first record and the request is sent
StreamResults ==
  /\ spc = "suspendedStart"
  /\ spc' = "fetch"
  /\ nStreamFetches' = nStreamFetches + 1
  /\ UNCHANGED <<sresponse, stream, swire, decoderPending, buffer, lines, atEnd, yielded,
                 readerLock, nReads, nReleases, sresult>>
  /\ UNCHANGED <<cfgVars, reqVars, now, waitVars, callerVars, clientVars, execVars>>

\* line 418: fetch() rejects, or is aborted by the timer of line 416
StreamFetchRejects ==
  /\ spc = "fetch"
  /\ \E e \in {FetchFailed, AbortError} : StreamThrows(e)
  /\ UNCHANGED <<cfgVars, reqVars, now, waitVars, callerVars, clientVars, execVars,
                 nStreamFetches>>

\* lines 418-443: the response head arrives; a status under 400 with a body
\* gives the reader
StreamFetchResolves ==
  /\ spc = "fetch"
  /\ \E status \in Statuses, hasBody \in BOOLEAN, body \in ByteStreams :
       IF IsErrorStatus(status)
       THEN /\ hasBody /\ body = << >>
            /\ spc' = "errorText"
            /\ sresponse' = status
            /\ UNCHANGED <<stream, swire, decoderPending, buffer, lines, atEnd, yielded,
                           readerLock, nReads, nReleases, sresult>>
       ELSE IF ~hasBody
       THEN /\ body = << >>
            /\ spc' = "failed"
            /\ sresponse' = status
            /\ sresult' = QueryServiceError("No response body", NoStatus)
            /\ UNCHANGED <<stream, swire, decoderPending, buffer, lines, atEnd, yielded,
                           readerLock, nReads, nReleases>>
       ELSE /\ spc' = "read"
            /\ sresponse' = status
            /\ stream' = body
            /\ swire' = body
            /\ readerLock' = "held"
            /\ UNCHANGED <<decoderPending, buffer, lines, atEnd, yielded, nReads, nReleases,
                           sresult>>
  /\ UNCHANGED <<cfgVars, reqVars, now, waitVars, callerVars, clientVars, execVars,
                 nStreamFetches>>

\* line 427: the body of an error response cannot be read
StreamErrorTextRejects ==
  /\ spc = "errorText"
  /\ StreamThrows(BodyReadFailed)
  /\ UNCHANGED <<cfgVars, reqVars, now, waitVars, callerVars, clientVars, execVars,
                 nStreamFetches>>

\* lines 427-434: the body of an error response is read and handleError throws
StreamErrorTextResolves ==
  /\ spc = "errorText"
  /\ \E responseText \in ErrorBodies :
       StreamThrows(HandleError(sresponse, ParseErrorData(responseText), responseText))
  /\ UNCHANGED <<cfgVars, reqVars, now, waitVars, callerVars, clientVars, execVars,
                 nStreamFetches>>

\* variant: the chunks are collected and nothing is yielded before the end
ReadResolvesCollecting ==
  /\ spc = "read"
  /\ swire # << >>
  /\ \E n \in 1..Len(swire) :
       LET decoded == DecodeChunk(decoderPending, SubSeq(swire, 1, n))
       IN /\ swire' = SubSeq(swire, n + 1, Len(swire))
          /\ decoderPending' = decoded.pending
          /\ buffer' = buffer \o decoded.text
  /\ nReads' = nReads + 1
  /\ UNCHANGED <<spc, sresponse, stream, lines, atEnd, yielded, readerLock, nReleases, sresult>>
  /\ UNCHANGED <<cfgVars, reqVars, now, waitVars, callerVars, clientVars, execVars,
                 nStreamFetches>>

\* lines 447 and 456-464: reader.read() delivers the next chunk, any non-empty
\* prefix of the bytes still to come
ReadResolves ==
  /\ spc = "read"
  /\ swire # << >>
  /\ \E n \in 1..Len(swire) :
       LET value == SubSeq(swire, 1, n)
           decoded == DecodeChunk(decoderPending, value)
           split == Split(buffer \o decoded.text)
       IN /\ swire' = SubSeq(swire, n + 1, Len(swire))
          /\ decoderPending' = decoded.pending
          /\ buffer' = split[Len(split)]
          /\ RunLines(SubSeq(split, 1, Len(split) - 1), FALSE)
  /\ nReads' = nReads + 1
  /\ UNCHANGED <<sresponse, stream>>
  /\ UNCHANGED <<cfgVars, reqVars, now, waitVars, callerVars, clientVars, execVars,
                 nStreamFetches>>

\* lines 447-454: reader.read() reports the end of the body
ReadDone ==
  /\ spc = "read"
  /\ swire = << >>
  /\ RunLines(<<buffer>>, TRUE)
  /\ UNCHANGED <<sresponse, stream, swire, decoderPending, buffer, nReads>>
  /\ UNCHANGED <<cfgVars, reqVars, now, waitVars, callerVars, clientVars, execVars,
                 nStreamFetches>>

\* line 447: reader.read() rejects; the error leaves through the finally block
ReadRejects ==
  /\ spc = "read"
  /\ spc' = "failed"
  /\ sresult' = BodyReadFailed
  /\ readerLock' = "released"
  /\ nReleases' = nReleases + 1
  /\ UNCHANGED <<sresponse, stream, swire, decoderPending, buffer, lines, atEnd, yielded,
                 nReads>>
  /\ UNCHANGED <<cfgVars, reqVars, now, waitVars, callerVars, clientVars, execVars,
                 nStreamFetches>>

\* variant: a consumer that stops early leaves the generator suspended at its yield
ConsumerReturnsLeaked ==
  /\ spc = "yield"
  /\ spc' = "closed"
  /\ UNCHANGED <<sresponse, stream, swire, decoderPending, buffer, lines, atEnd, yielded,
                 readerLock, nReads, nReleases, sresult>>
  /\ UNCHANGED <<cfgVars, reqVars, now, waitVars, callerVars, clientVars, execVars,
                 nStreamFetches>>

\* lines 451, 462 and 466-468: the consumer stops early (break in for await, or
\* return()): the generator ends at its yield, running the finally block
ConsumerReturns ==
  /\ spc = "yield"
  /\ spc' = "closed"
  /\ readerLock' = "released"
  /\ nReleases' = nReleases + 1
  /\ UNCHANGED <<sresponse, stream, swire, decoderPending, buffer, lines, atEnd, yielded,
                 nReads, sresult>>
  /\ UNCHANGED <<cfgVars, reqVars, now, waitVars, callerVars, clientVars, execVars,
                 nStreamFetches>>

\* the consumer asks for the next record: the generator resumes after its yield
StreamNext ==
  /\ spc = "yield"
  /\ RunLines(lines, atEnd)
  /\ UNCHANGED <<sresponse, stream, swire, decoderPending, buffer, nReads>>
  /\ UNCHANGED <<cfgVars, reqVars, now, waitVars, callerVars, clientVars, execVars,
                 nStreamFetches>>

\* the caller of waitForJob() stops waiting: WaitForJobOptions has no abort
\* signal and sleep() no way to be woken, so no state of the poller changes
CallerCancels ==
  /\ wpc \in {"fetch", "sleep"}
  /\ ~cancelled
  /\ cancelled' = TRUE
  /\ UNCHANGED suspended
  /\ UNCHANGED <<cfgVars, reqVars, now, waitVars, streamVars, clientVars, execVars>>

(***************************************************************************)
(* Specifications                                                          *)
(***************************************************************************)
\* configured retry counts explored for a direct request
RetryConfigs == {0, 1, DEFAULT_MAX_RETRIES, MaxRetries}

JobIds == {"job-123", "job-456"}

\* the locals of a request() that has not been called yet
IdleFrame ==
  [pc |-> "idle", attempt |-> 0, response |-> NoStatus, lastResponse |-> NoResponse,
   lastError |-> NoError, timerArmed |-> FALSE, overdue |-> FALSE, sleepMs |-> 0,
   result |-> NoResult, nAttempts |-> 0, nSleeps |-> 0, lastOutcome |-> NoOutcome,
   priorTransient |-> TRUE]

InitRequestFrame ==
  /\ pc = "idle"
  /\ attempt = 0
  /\ response = NoStatus
  /\ lastResponse = NoResponse
  /\ lastError = NoError
  /\ timerArmed = FALSE
  /\ overdue = FALSE
  /\ sleepMs = 0
  /\ result = NoResult
  /\ nAttempts = 0
  /\ nSleeps = 0
  /\ lastOutcome = NoOutcome
  /\ priorTransient = TRUE

InitWaitFrame ==
  /\ now = 0
  /\ wpc = "idle"
  /\ startTime = 0
  /\ pollInterval = Interval(0)
  /\ wresult = NoResult
  /\ nFetches = 0
  /\ pollSleeps = << >>

InitOutsideFrame ==
  /\ suspended = IdleFrame
  /\ baseUrl = "https://query.keboola.com"
  /\ token = "storage-api-token"
  /\ timeout = DEFAULT_TIMEOUT
  /\ userAgent = "keboola-query-service-ts-sdk"
  /\ epc = "idle"
  /\ jobId = ""
  /\ finalStatus = NoValue
  /\ results = << >>
  /\ eresult = NoResult
  /\ calls = << >>
  /\ cancelled = FALSE
  /\ spc = "idle"
  /\ sresponse = NoStatus
  /\ stream = << >>
  /\ swire = << >>
  /\ decoderPending = << >>
  /\ buffer = << >>
  /\ lines = << >>
  /\ atEnd = FALSE
  /\ yielded = << >>
  /\ readerLock = "none"
  /\ nReads = 0
  /\ nReleases = 0
  /\ nStreamFetches = 0
  /\ sresult = NoResult

\* a client and one call of an endpoint method
Init ==
  /\ maxRetries \in RetryConfigs
  /\ op = "request"
  /\ queryJobId = "job-123"
  /\ maxWaitTime = 0
  /\ pollIntervalStart = 0
  /\ pollIntervalMax = 0
  /\ InitRequestFrame
  /\ InitWaitFrame
  /\ InitOutsideFrame

Next ==
  \/ Call
  \/ FetchRejects
  \/ TimeoutElapses
  \/ FetchResolves
  \/ TextRejects
  \/ TextResolves
  \/ JsonRejects
  \/ JsonResolves
  \/ SleepResolves
  \/ LastTextSettles

Spec == Init /\ [][Next]_vars

\* the deadlines explored: every sleep lasts at least 1 ms, so a wait of w ms
\* needs at most w + 1 fetches and the clock reaches every deadline
WaitTimes == {0, 2, Min(MaxPolls, ClockCap) - 1}

\* a client and one call of waitForJob
InitWait ==
  /\ maxRetries \in 0..MaxRetriesPolling
  /\ op = "waitForJob"
  /\ queryJobId \in JobIds
  /\ maxWaitTime \in WaitTimes
  /\ pollIntervalStart \in {1, 4}
  /\ pollIntervalMax \in {3}
  /\ InitRequestFrame
  /\ InitWaitFrame
  /\ InitOutsideFrame

NextWait ==
  \/ WaitForJob
  \/ TimePasses
  \/ StatusResolves
  \/ StatusRejects
  \/ PollSleepResolves
  \/ FetchRejects
  \/ TimeoutElapses
  \/ FetchResolves
  \/ TextRejects
  \/ TextResolves
  \/ JsonRejects
  \/ JsonResolves
  \/ SleepResolves
  \/ LastTextSettles

SpecWait == InitWait /\ [][NextWait]_vars

\* a waitForJob whose caller may stop waiting at any moment
NextCancel ==
  \/ CallerCancels
  \/ WaitForJob
  \/ TimePasses
  \/ StatusResolves
  \/ StatusRejects
  \/ PollSleepResolves
  \/ FetchRejects
  \/ TimeoutElapses
  \/ FetchResolves
  \/ TextRejects
  \/ TextResolves
  \/ JsonRejects
  \/ JsonResolves
  \/ SleepResolves
  \/ LastTextSettles

SpecCancel == InitWait /\ [][NextCancel]_vars

\* a client and two calls of an endpoint method in flight at once
InitConcurrent ==
  /\ maxRetries = 2
  /\ op = "request"
  /\ queryJobId = "job-123"
  /\ maxWaitTime = 0
  /\ pollIntervalStart = 0
  /\ pollIntervalMax = 0
  /\ InitRequestFrame
  /\ InitWaitFrame
  /\ InitOutsideFrame

\* what the server and the timers do while the two calls are in flight: the
\* statuses 200, 404 and 429, one body of each kind, the shortest sleep
ServedConcurrently ==
  /\ response \in {NoStatus, 200, 404, 429}
  /\ lastOutcome.body \in {Unread, ExceptionBody, JobIdBody, EmptyBody}
  /\ sleepMs \in {0} \cup {WaitTime(a) : a \in 0..MaxRetries}

NextConcurrent ==
  \/ Call
  \/ FetchRejects /\ ServedConcurrently'
  \/ TimeoutElapses /\ ServedConcurrently'
  \/ FetchResolves /\ ServedConcurrently'
  \/ TextRejects /\ ServedConcurrently'
  \/ TextResolves /\ ServedConcurrently'
  \/ JsonRejects /\ ServedConcurrently'
  \/ JsonResolves /\ ServedConcurrently'
  \/ SleepResolves
  \/ LastTextSettles
  \/ ResumeOther

SpecConcurrent == InitConcurrent /\ [][NextConcurrent]_vars

\* a client and one call of executeQuery
InitExec ==
  /\ maxRetries = 1
  /\ op = "executeQuery"
  /\ queryJobId = ""
  /\ maxWaitTime = 1
  /\ pollIntervalStart = 1
  /\ pollIntervalMax = 3
  /\ InitRequestFrame
  /\ InitWaitFrame
  /\ InitOutsideFrame

NextExec ==
  \/ ExecuteQuery
  \/ SubmitJobRejects
  \/ SubmitJobResolves
  \/ WaitForJobThrows
  \/ WaitForJobReturns
  \/ GetJobResultsRejects
  \/ GetJobResultsResolves
  \/ TimePasses
  \/ StatusResolves
  \/ StatusRejects
  \/ PollSleepResolves
  \/ FetchRejects
  \/ TimeoutElapses
  \/ FetchResolves
  \/ TextRejects
  \/ TextResolves
  \/ JsonRejects
  \/ JsonResolves
  \/ SleepResolves
  \/ LastTextSettles

SpecExec == InitExec /\ [][NextExec]_vars

\* a client and one consumer of streamResults
InitStream ==
  /\ maxRetries = DEFAULT_MAX_RETRIES
  /\ op = "streamResults"
  /\ queryJobId = "job-123"
  /\ maxWaitTime = 0
  /\ pollIntervalStart = 0
  /\ pollIntervalMax = 0
  /\ InitRequestFrame
  /\ InitWaitFrame
  /\ InitOutsideFrame

NextStream ==
  \/ StreamResultsCalled
  \/ ConsumerReturnsUnstarted
  \/ StreamResults
  \/ StreamFetchRejects
  \/ StreamFetchResolves
  \/ StreamErrorTextRejects
  \/ StreamErrorTextResolves
  \/ ReadResolves
  \/ ReadDone
  \/ ReadRejects
  \/ ConsumerReturns
  \/ StreamNext

SpecStream == InitStream /\ [][NextStream]_vars

\* the event loop runs every callback that is ready, and every fetch, body read
\* and timer of the environment settles
InitWaitFair ==
  /\ InitWait
  /\ maxRetries <= 1
  /\ queryJobId = "job-456"

SpecWaitFair == InitWaitFair /\ [][NextWait]_vars /\ WF_vars(NextWait)

(***************************************************************************)
(* Properties of Client.request (checked under Spec)                       *)
(***************************************************************************)
RequestEnded == pc \in {"returned", "thrown"}
AttemptInFlight == pc \in {"fetch", "text", "json"}

\* C1: one logical request issues at least 1 and at most maxRetries + 1 HTTP
\* attempts, whatever the outcomes of the attempts are.
C1_AttemptsWithinBudget ==
  /\ nAttempts <= maxRetries + 1
  /\ pc # "idle" => nAttempts >= 1

C1_Witness ==
  /\ pc = "thrown"
  /\ maxRetries = DEFAULT_MAX_RETRIES
  /\ nAttempts = maxRetries + 1

\* the body an attempt received is a JSON document
BodyParses(body) == body # Unread /\ JSONParse(body).type # "SyntaxError"

\* C2: when every earlier attempt ended in a transient failure and attempt k
\* received a status below 400, the request goes on to no other attempt: what it
\* returns is the payload of attempt k, and it returns it whenever that payload
\* can be parsed.
C2_SuccessAfterTransientFailures ==
  (priorTransient /\ lastOutcome.status # NoStatus /\ lastOutcome.status < 400)
    => /\ pc # "sleep"
       /\ pc = "returned" => result = Returned(JSONParse(lastOutcome.body))
       /\ BodyParses(lastOutcome.body) => pc = "returned"

\* C3: a first response with a non-retryable status (>= 400, below 500, not 429),
\* its body received, ends the request at once: one attempt, no backoff sleep, the
\* error raised.
C3_NonRetryableNeverRetried ==
  (/\ nAttempts = 1
   /\ lastOutcome.body # Unread
   /\ lastOutcome.status >= 400
   /\ lastOutcome.status < 500
   /\ lastOutcome.status # 429)
    => /\ pc = "thrown"
       /\ nSleeps = 0
       /\ IsQueryServiceError(result)

\* the response an error with a status code was built from: the response of the
\* final attempt, or lastResponse when the error was built after the loop
SurfacedResponse ==
  IF lastOutcome.status # NoStatus /\ IsQueryServiceError(lastOutcome.error)
  THEN [status |-> lastOutcome.status, body |-> lastOutcome.body]
  ELSE lastResponse

C5_ExhaustionReportsAttemptsAndCause ==
  (/\ pc = "thrown"
   /\ nAttempts = maxRetries + 1
   /\ priorTransient
   /\ IsTransient(lastOutcome))
    => /\ result.kind = "QueryServiceError"
       /\ \/ lastOutcome.status # NoStatus /\ result.statusCode = lastOutcome.status
          \/ result.attempts = maxRetries + 1 /\ result.cause = lastOutcome.error.text

\* C6: every error with which request() ends is of the closed taxonomy.
C6_OnlyTaxonomyErrors ==
  pc = "thrown"
    => result.kind \in {"AuthenticationError", "ValidationError", "NotFoundError",
                        "QueryServiceError"}

\* C7: no attempt is in flight (response or body awaited) beyond `timeout` ms:
\* at the timeout the attempt is aborted.
C7_AttemptAbortedAtTimeout == ~(AttemptInFlight /\ overdue)

\* C8: an attempt that received a status below 400 ends the request: no backoff
\* sleep and no attempt follows it.
C8_SuccessEndsRequest ==
  (lastOutcome.status # NoStatus /\ lastOutcome.status < 400)
    => RequestEnded /\ nSleeps = nAttempts - 1

\* the retry wait before jitter, written out
ExpectedWait(n) == IF (2 ^ n) * 100 < 10000 THEN (2 ^ n) * 100 ELSE 10000

\* C9: before attempt n+1 exactly one sleep has happened since attempt n, of
\* min(2^n * 100, 10000) ms plus a jitter in [0, 100); no sleep follows the final
\* attempt and no sleep exceeds 10100 ms.
C9_OneBackoffSleepPerRetry ==
  /\ pc = "sleep" =>
       /\ nSleeps = attempt + 1
       /\ nAttempts = attempt + 1
       /\ sleepMs >= ExpectedWait(attempt)
       /\ sleepMs < ExpectedWait(attempt) + 100
       /\ sleepMs <= 10100
  /\ AttemptInFlight => (nSleeps = attempt /\ nAttempts = attempt + 1)
  /\ pc \in {"lastText", "returned", "thrown"} => nSleeps = nAttempts - 1

C9_Witness ==
  /\ pc = "sleep"
  /\ attempt >= 7
  /\ sleepMs >= 10000
  /\ lastOutcome.status = 500

(***************************************************************************)
(* Properties of Client.waitForJob (checked under SpecWait)                *)
(***************************************************************************)
\* C10: waitForJob returns only the snapshot of its most recent status fetch, and
\* only when its job state is completed or canceled; a canceled snapshot is
\* returned, never raised.
C10_ReturnsOnlyCompletedOrCanceled ==
  /\ wpc = "returned" =>
       /\ wresult = Returned(result.value)
       /\ Field(wresult.value, "status") \in {"completed", "canceled"}
  /\ (wpc = "thrown" /\ pc = "returned") => Field(result.value, "status") # "canceled"

C10_Witness ==
  /\ wpc = "returned"
  /\ nFetches >= 2
  /\ wresult.value.status = "canceled"

\* the (id, error) pairs of the failed statements of a list, in its order
RECURSIVE FailedPairs(_)
FailedPairs(statements) ==
  IF statements = << >>
  THEN << >>
  ELSE LET s == Head(statements)
       IN (IF s.status = "failed" THEN << [id |-> s.id, error |-> s.error] >> ELSE << >>)
            \o FailedPairs(Tail(statements))

WaitEnded == wpc \in {"returned", "thrown"}

\* the job state of the snapshot the most recent status fetch returned
FetchedState == IF pc = "returned" THEN Field(result.value, "status") ELSE Undefined

\* C11: a fetched snapshot whose job state is failed ends waitForJob with a
\* JobError that carries the caller's job identifier and, in the statements'
\* order, the (id, error) pairs of exactly the statements whose state is failed.
C11_JobErrorCarriesFailedStatements ==
  /\ (WaitEnded /\ FetchedState = "failed") =>
       /\ wpc = "thrown"
       /\ wresult.kind = "JobError"
       /\ wresult.jobId = queryJobId
       /\ wresult.failedStatements = FailedPairs(result.value.statements)
  /\ (wpc = "thrown" /\ wresult.kind = "JobError") => FetchedState = "failed"

C11_Witness ==
  /\ wpc = "thrown"
  /\ wresult.kind = "JobError"
  /\ queryJobId = "job-456"
  /\ Len(result.value.statements) = 3
  /\ wresult.failedStatements = << [id |-> "stmt-2", error |-> "SQL error"] >>

\* the error messages the failed statements of a list carry, in its order
ErrorMessages(statements) ==
  LET pairs == FailedPairs(statements)
      carrying == SelectSeq(pairs, LAMBDA f : f.error \notin {Null, Undefined})
  IN [i \in 1..Len(carrying) |-> carrying[i].error]

\* C12: the message of the JobError is the first error message found among the
\* failed statements in stored order, and "Job failed" when no failed statement
\* carries an error message.
C12_MessageIsFirstFailedStatementError ==
  (wpc = "thrown" /\ wresult.kind = "JobError") =>
    LET messages == ErrorMessages(result.value.statements)
    IN wresult.text = IF messages = << >> THEN "Job failed" ELSE messages[1]

\* the time since waitForJob() started
Elapsed == now - startTime

\* the last status fetch returned a snapshot whose job state is not terminal
FetchedNonTerminal ==
  /\ pc = "returned"
  /\ result.value.type = "object"
  /\ FetchedState \notin {"completed", "failed", "canceled"}

\* C13: waitForJob with a finite maxWaitTime ends; when the status fetches
\* return non-terminal job states it ends after a bounded number of polls (at
\* most one sleep per millisecond of maxWaitTime) with a JobTimeoutError that
\* carries the caller's job identifier.
C13_TimeoutEndsTheWait ==
  /\ <>WaitEnded
  /\ [](Len(pollSleeps) <= maxWaitTime)
  /\ []((WaitEnded /\ FetchedNonTerminal) =>
          /\ wpc = "thrown"
          /\ wresult.kind = "JobTimeoutError"
          /\ wresult.jobId = queryJobId)

C13_Witness ==
  /\ wpc = "thrown"
  /\ wresult.kind = "JobTimeoutError"
  /\ wresult.jobId = "job-456"
  /\ maxWaitTime > 0
  /\ nFetches >= 3

\* a / 2^b <= c / 2^d
IntervalLeq(i, j) == i.num * (2 ^ j.den) <= j.num * (2 ^ i.den)

\* C14: the first poll sleep is pollIntervalStart and every later one is the
\* previous one times 1.5 clamped to pollIntervalMax; the sleeps never decrease
\* and none exceeds pollIntervalMax.
C14_PollIntervalsGrowToCeiling ==
  \A i \in 1..Len(pollSleeps) :
    /\ IntervalLeq(pollSleeps[i], Interval(pollIntervalMax))
    /\ IF i = 1
       THEN pollSleeps[i] = Interval(pollIntervalStart)
       ELSE LET grown == [num |-> 3 * pollSleeps[i - 1].num, den |-> pollSleeps[i - 1].den + 1]
            IN /\ IntervalLeq(pollSleeps[i - 1], pollSleeps[i])
               /\ IF IntervalLeq(Interval(pollIntervalMax), grown)
                  THEN pollSleeps[i] = Interval(pollIntervalMax)
                  ELSE pollSleeps[i] = grown

\* C15 as stated: once the elapsed time has reached maxWaitTime the poller
\* issues no further status fetch.
C15_DeadlineSpansFetchesAndSleeps ==
  [][(nFetches >= 1 /\ nFetches' = nFetches + 1) => now' - startTime < maxWaitTime]_vars

\* C15: the elapsed time is compared with maxWaitTime only when a status fetch
\* has returned a non-terminal snapshot: the call then ends with JobTimeoutError
\* if maxWaitTime has elapsed and sleeps the poll interval otherwise; a
\* JobTimeoutError is raised in no other situation.
C15_DeadlineCheckedAfterNonTerminalFetch ==
  /\ wpc = "sleep" => (FetchedNonTerminal /\ Elapsed < maxWaitTime)
  /\ (WaitEnded /\ FetchedNonTerminal) => Elapsed >= maxWaitTime
  /\ (wpc = "thrown" /\ wresult.kind = "JobTimeoutError") =>
       (FetchedNonTerminal /\ Elapsed >= maxWaitTime)

\* a snapshot fetched after the deadline is returned
C15_Witness ==
  /\ wpc = "returned"
  /\ nFetches >= 2
  /\ maxWaitTime > 0
  /\ Elapsed > maxWaitTime

\* C17: an error raised by a status fetch leaves waitForJob unchanged and ends
\* the wait, with no sleep and no fetch after it; the poller sleeps only after
\* a snapshot whose job state is not terminal.
C17_StatusFetchErrorPropagates ==
  /\ pc = "thrown" => /\ wpc \in {"fetch", "thrown"}
                      /\ wpc = "thrown" => wresult = result
  /\ wpc = "sleep" => FetchedNonTerminal

C17_Witness ==
  /\ wpc = "thrown"
  /\ pc = "thrown"
  /\ wresult = result
  /\ wresult.kind = "NotFoundError"
  /\ nFetches >= 2

\* C16 as stated: once the caller has stopped waiting during a poll sleep, no
\* further status fetch is issued.
C16_NoFetchAfterCancel ==
  [][(cancelled /\ wpc = "sleep") => wpc' # "fetch"]_vars

\* the generator threw the failure of JSON.parse
ParseFailed == spc = "failed" /\ sresult = JsonSyntaxError

\* the whole body was delivered and the consumer took every record
StreamEnded == spc = "done" \/ ParseFailed

\* the records and the ending the generator gives when the whole body arrives
\* as one chunk
RECURSIVE Drain(_, _)
Drain(ls, out) ==
  LET rest == SkipBlank(ls)
  IN IF rest = << >>
     THEN [yielded |-> out, spc |-> "done"]
     ELSE LET parsed == JSONParseLine(Head(rest))
          IN IF parsed.type = "SyntaxError"
             THEN [yielded |-> out, spc |-> "failed"]
             ELSE Drain(Tail(rest), Append(out, parsed.json))

OneChunk(bytes) == Drain(Split(DecodeChunk(<< >>, bytes).text), << >>)

IsPrefix(p, q) == Len(p) <= Len(q) /\ p = SubSeq(q, 1, Len(p))

\* C18: however the body is cut into chunks, the generator yields the records
\* and reaches the ending it gives when the body arrives as one chunk.
C18_ChunkingIndependent ==
  /\ IsPrefix(yielded, OneChunk(stream).yielded)
  /\ StreamEnded => (yielded = OneChunk(stream).yielded /\ spc = OneChunk(stream).spc)

\* a body delivered one byte at a time, its two-byte character cut in the middle
C18_Witness ==
  /\ StreamEnded
  /\ spc = "done"
  /\ stream = <<Quote, LeadByte, ContinuationByte, Quote, Newline, Digit>>
  /\ nReads = Len(stream)
  /\ yielded = << <<Quote, TwoByteChar, Quote>>, <<Digit>> >>

\* the text of a body
TextOf(bytes) == DecodeChunk(<< >>, bytes).text

\* a line of blanks only
Blank(line) == \A i \in 1..Len(line) : line[i] = Space

\* a line without the blanks around it
Content(line) ==
  LET ink == {i \in 1..Len(line) : line[i] # Space}
  IN IF ink = {}
     THEN << >>
     ELSE SubSeq(line, CHOOSE i \in ink : \A k \in ink : i <= k,
                       CHOOSE i \in ink : \A k \in ink : k <= i)

\* the lines of the body that are not blank, in the order of the body
NonBlankLines == SelectSeq(Split(TextOf(stream)), LAMBDA l : ~Blank(l))

\* C19: the records yielded are, in the order of the body, one record for each
\* line that is not blank after trimming, up to the first line that does not
\* parse; blank lines yield nothing and nothing is reordered, dropped or
\* duplicated.
C19_OneRecordPerLineInOrder ==
  /\ Len(yielded) <= Len(NonBlankLines)
  /\ \A i \in 1..Len(yielded) : yielded[i] = Content(NonBlankLines[i])
  /\ spc = "done" => Len(yielded) = Len(NonBlankLines)
  /\ ParseFailed =>
       /\ Len(yielded) < Len(NonBlankLines)
       /\ JSONParseLine(NonBlankLines[Len(yielded) + 1]).type = "SyntaxError"

C19_Witness ==
  /\ spc = "done"
  /\ stream = <<Digit, Newline, Space, Newline, Digit, Digit>>
  /\ yielded = << <<Digit>>, <<Digit, Digit>> >>
  /\ nReads = 2

\* reader.read() is about to report the end of the body
AtEndOfInput == spc = "read" /\ swire = << >>

\* C20: at the end of the input the buffer is the text after the last newline;
\* if it is not blank it is parsed and yielded as the last record, and if it
\* is empty or blank the generator finishes without yielding.
C20_TrailingSegmentYieldedLast ==
  /\ [](AtEndOfInput => buffer = Split(TextOf(stream))[Len(Split(TextOf(stream)))])
  /\ [][/\ (AtEndOfInput /\ sresult' # BodyReadFailed) =>
             IF Blank(buffer)
             THEN spc' = "done" /\ yielded' = yielded /\ readerLock' = "released"
             ELSE IF JSONParseLine(buffer).type = "value"
             THEN spc' = "yield" /\ atEnd' /\ yielded' = Append(yielded, Content(buffer))
             ELSE spc' = "failed" /\ yielded' = yielded
         /\ (spc = "yield" /\ atEnd) =>
             (spc' \in {"done", "closed"} /\ yielded' = yielded /\ readerLock' = "released")]_vars

C20_Witness ==
  /\ spc = "done"
  /\ atEnd
  /\ stream = <<Digit, Newline, Digit, Digit>>
  /\ yielded = << <<Digit>>, <<Digit, Digit>> >>

\* the bytes reader.read() has delivered
Received == SubSeq(stream, 1, Len(stream) - Len(swire))

\* the lines whose newline has been received and, after the end of input, the
\* trailing segment
LinesReceived ==
  LET split == Split(TextOf(Received))
  IN IF atEnd THEN split ELSE SubSeq(split, 1, Len(split) - 1)

\* the non-blank lines received that come before the first one that does not parse
RECURSIVE ParsedBeforeFailure(_)
ParsedBeforeFailure(ls) ==
  IF ls = << >> THEN << >>
  ELSE IF Blank(Head(ls)) THEN ParsedBeforeFailure(Tail(ls))
  ELSE IF JSONParseLine(Head(ls)).type = "SyntaxError" THEN << >>
  ELSE <<Content(Head(ls))>> \o ParsedBeforeFailure(Tail(ls))

SomeLineFails(ls) ==
  \E i \in 1..Len(ls) : ~Blank(ls[i]) /\ JSONParseLine(ls[i]).type = "SyntaxError"

\* C21: a line that does not parse ends the generator with that failure: no
\* record of a later line is yielded, no further chunk is read, and the
\* records of all earlier lines have been yielded by then.
C21_ParseFailureEndsTheSequence ==
  /\ [](SomeLineFails(LinesReceived) =>
          /\ spc \in {"failed", "yield", "closed"}
          /\ IsPrefix(yielded, ParsedBeforeFailure(LinesReceived))
          /\ spc = "failed" => (ParseFailed /\ yielded = ParsedBeforeFailure(LinesReceived)))
  /\ [](ParseFailed => SomeLineFails(LinesReceived))
  /\ [][ParseFailed => UNCHANGED <<yielded, swire, nReads>>]_vars

\* a failure after a record, with the rest of the body never read
C21_Witness ==
  /\ ParseFailed
  /\ stream = <<Digit, Newline, Quote, Newline, Digit, Newline>>
  /\ yielded = << <<Digit>> >>
  /\ swire # << >>

\* the generator has left its body
StreamExited == spc \in {"done", "failed", "closed"}

\* C22: the reader, once acquired, is released exactly once on every way out of
\* the generator (end of input, the consumer stopping early, a line that does
\* not parse, a read that fails) and is never held after the generator has ended.
C22_ReaderReleasedOnce ==
  /\ nReleases <= 1
  /\ readerLock = "released" <=> nReleases = 1
  /\ readerLock = "held" <=> spc \in {"read", "yield"}
  /\ StreamExited => readerLock \in {"none", "released"}
  /\ (StreamExited /\ nReads > 0) => nReleases = 1

\* the consumer stopped early, with bytes of the body still to come
C22_Witness ==
  /\ spc = "closed"
  /\ swire # << >>
  /\ yielded = << <<Digit>> >>
  /\ readerLock = "released"
  /\ nReleases = 1

\* C28: whenever a read is awaited, every line whose newline has been received
\* has been yielded: the next chunk is read only after the records of the
\* chunks read so far have been handed to the consumer.
C28_YieldsBeforeNextRead ==
  spc = "read" =>
    /\ ~SomeLineFails(LinesReceived)
    /\ yielded = ParsedBeforeFailure(LinesReceived)
    /\ \A i \in 1..Len(buffer) : buffer[i] # Newline

\* a record has been yielded while the rest of the body is still to be read
C28_Witness ==
  /\ spc = "read"
  /\ stream = <<Digit, Newline, Space, Newline, Digit, Digit>>
  /\ yielded = << <<Digit>> >>
  /\ nReads = 1
  /\ Len(swire) = 4

\* the last status fetch returned a snapshot whose job state is terminal
FetchedTerminal ==
  /\ pc = "returned"
  /\ result.value.type = "object"
  /\ FetchedState \in {"completed", "failed", "canceled"}

\* C26: waitForJob fetches before it ever sleeps and from then on sleeps and
\* fetches alternate, the last action being a fetch; a job that is terminal at
\* the first fetch costs one fetch and no sleep, and nothing is fetched after a
\* terminal snapshot.
C26_FetchAndSleepAlternate ==
  /\ [](/\ wpc = "idle" => (nFetches = 0 /\ pollSleeps = << >>)
        /\ wpc \in {"fetch", "returned", "thrown"} => nFetches = Len(pollSleeps) + 1
        /\ wpc = "sleep" => nFetches = Len(pollSleeps))
  /\ [][/\ (wpc = "fetch" /\ FetchedTerminal) =>
             (wpc' \in {"returned", "thrown"} /\ UNCHANGED <<nFetches, pollSleeps>>)
        /\ WaitEnded => UNCHANGED <<nFetches, pollSleeps>>]_vars

C26_Witness ==
  /\ wpc = "returned"
  /\ nFetches = 3
  /\ Len(pollSleeps) = 2
  /\ FetchedState = "canceled"

\* C27: a JobTimeoutError is raised only by the step that follows a fetch of a
\* non-terminal snapshot, with elapsed >= maxWaitTime; the wait never ends
\* during a fetch or a sleep; a terminal snapshot ends the wait as a returned
\* snapshot, or as a JobError when failed, whatever time has elapsed.
C27_DeadlineExaminedOnlyAfterFetch ==
  [][/\ (wpc # "thrown" /\ wpc' = "thrown" /\ wresult'.kind = "JobTimeoutError") =>
          (wpc = "fetch" /\ FetchedNonTerminal /\ Elapsed >= maxWaitTime)
     /\ (wpc' \in {"returned", "thrown"} /\ ~WaitEnded) =>
          (wpc = "fetch" /\ RequestEnded)
     /\ (wpc = "fetch" /\ FetchedTerminal) =>
          IF FetchedState = "failed"
          THEN wpc' = "thrown" /\ wresult'.kind = "JobError"
          ELSE wpc' = "returned" /\ wresult'.value = result.value]_vars

\* a failed snapshot fetched after the deadline is raised as a JobError
C27_Witness ==
  /\ wpc = "thrown"
  /\ wresult.kind = "JobError"
  /\ nFetches >= 2
  /\ maxWaitTime > 0
  /\ Elapsed > maxWaitTime

\* C29: when the retries are exhausted and the final attempt failed with a
\* network or timeout error, the error of the request reports that error and
\* not the response of an earlier attempt.
C29_ExhaustionReportsFinalAttempt ==
  (/\ pc = "thrown"
   /\ nAttempts = maxRetries + 1
   /\ lastOutcome.status = NoStatus
   /\ lastOutcome.error \in {FetchFailed, AbortError})
    => /\ result.statusCode = NoStatus
       /\ result.cause = lastOutcome.error.text

\* the calls executeQuery() makes when it runs to its end: submitJob, then
\* waitForJob on the returned id, then getJobResults for each statement in turn
CallsFor(id, sts) ==
  <<CallOf("submitJob", "", ""), CallOf("waitForJob", id, "")>>
    \o [i \in 1..Len(sts) |-> CallOf("getJobResults", id, sts[i].id)]

\* the statements whose results executeQuery() fetches: those of the snapshot
\* waitForJob() returned, none before it returned
StatementsToFetch == IF finalStatus = NoValue THEN << >> ELSE finalStatus.statements

\* C23: executeQuery calls submitJob, then waitForJob on the id submitJob
\* returned, then getJobResults once per statement of the final snapshot in
\* the statements' stored order; each result is the parsed body of the
\* server's response, appended at the position of its statement, and the
\* returned list holds exactly one result per statement in that order.
C23_ExecuteQueryOrder ==
  /\ [](/\ epc # "idle" => IsPrefix(calls, CallsFor(jobId, StatementsToFetch))
        /\ epc = "waitForJob" => Len(calls) = 2 /\ queryJobId = jobId
        /\ epc = "getJobResults" => /\ Len(calls) = Len(results) + 3
                                    /\ finalStatus = wresult.value
        /\ epc = "returned" => /\ calls = CallsFor(jobId, finalStatus.statements)
                               /\ eresult = ReturnedList(results)
                               /\ Len(results) = Len(finalStatus.statements))
  /\ [][/\ (epc = "submitJob" /\ epc' = "waitForJob")
             => jobId' = Field(result.value, "queryJobId")
        /\ results' # results
             => /\ epc = "getJobResults"
                /\ pc = "returned"
                /\ results' = Append(results, JSONParse(lastOutcome.body))
                /\ Field(results'[Len(results')], "columns")
                     = Field(JSONParse(lastOutcome.body), "columns")
                /\ Field(results'[Len(results')], "data")
                     = Field(JSONParse(lastOutcome.body), "data")]_vars

\* both statements' results were fetched, they differ, and the list came back
C23_Witness ==
  /\ epc = "returned"
  /\ jobId = "job-123"
  /\ Len(finalStatus.statements) = 2
  /\ eresult.value.items = <<JSONParse(ResultBodyOne), JSONParse(ResultBodyTwo)>>

\* the step executeQuery() is awaiting has thrown
StepFailed ==
  \/ epc \in {"submitJob", "getJobResults"} /\ pc = "thrown"
  \/ epc = "waitForJob" /\ wpc = "thrown"

\* the error of the step executeQuery() awaited
StepError == IF epc = "waitForJob" THEN wresult ELSE result

\* C30: getJobResults is called only after waitForJob returned a snapshot:
\* while submitJob or waitForJob runs or after either failed, no result is
\* fetched.  A step that fails makes executeQuery reject with that step's
\* error, also after some results were fetched, and a returned list is never
\* shorter than the snapshot's statements.
C30_NoResultsUnlessWaitReturned ==
  /\ [](/\ (\E i \in 1..Len(calls) : calls[i].method = "getJobResults")
             => wpc = "returned" /\ finalStatus = wresult.value
        /\ results # << >> => wpc = "returned"
        /\ epc = "thrown" => /\ eresult.kind # "ok"
                             /\ "items" \notin DOMAIN eresult.value
        /\ epc = "returned" => /\ wpc = "returned"
                               /\ Len(eresult.value.items) = Len(finalStatus.statements))
  /\ [][(StepFailed /\ <<epc, eresult, results, calls>>' # <<epc, eresult, results, calls>>)
          => /\ epc' = "thrown"
             /\ eresult' = StepError
             /\ UNCHANGED <<results, calls, reqVars, waitVars>>]_vars

\* the second getJobResults failed after the first result had been fetched,
\* and executeQuery rejected with its error
C30_Witness ==
  /\ epc = "thrown"
  /\ Len(results) = 1
  /\ Len(finalStatus.statements) = 2
  /\ pc = "thrown"
  /\ eresult = result
  /\ eresult.kind # "ok"

\* no call of request() is in progress
RequestAtRest == pc \in {"idle", "returned", "thrown"}

\* C25: no step of request, of an endpoint method, of waitForJob or of
\* executeQuery changes baseUrl, token, timeout, maxRetries or userAgent; a
\* call of request() starts with attempt 0 and no last response, last error,
\* sleep or result of the call before it, what it returns is the parsed body
\* of its own response, and waitForJob starts from its own start time and
\* initial interval.
C25_ConfigurationFixedCallsIndependent ==
  [][/\ UNCHANGED <<baseUrl, token, timeout, maxRetries, userAgent>>
     /\ (RequestAtRest /\ ~RequestAtRest')
          => /\ pc' = "fetch"
             /\ attempt' = 0
             /\ nAttempts' = 1
             /\ nSleeps' = 0
             /\ sleepMs' = 0
             /\ lastResponse' = NoResponse
             /\ lastError' = NoError
             /\ lastOutcome' = NoOutcome
             /\ result' = NoResult
     /\ (pc # "returned" /\ pc' = "returned")
          => result' = Returned(JSONParse(lastOutcome'.body))
     /\ (wpc = "idle" /\ wpc' # "idle")
          => /\ startTime' = now
             /\ pollInterval' = Interval(pollIntervalStart)
             /\ wresult' = NoResult
             /\ nFetches' = 1]_vars

\* the second getJobResults call of an executeQuery starts afresh, after the
\* submitJob, getJobStatus and getJobResults calls before it
C25_Witness ==
  /\ epc = "getJobResults"
  /\ Len(results) = 1
  /\ results[1] = JSONParse(ResultBodyTwo)
  /\ pc = "fetch"
  /\ attempt = 0
  /\ lastResponse = NoResponse
  /\ timeout = DEFAULT_TIMEOUT

\* a call of request() has ended
Ended(f) == f.pc \in {"returned", "thrown"}

\* the attempts, sleeps and outcome of the call with locals f follow from the
\* outcomes of that call's attempts alone: one more attempt than its counter
\* while in flight, a sleep between attempts, never more than maxRetries + 1
\* attempts, an early end only after an outcome of its own that is not
\* transient, and a returned value that is the parse of its own last response
OwnOutcomesOnly(f) ==
  /\ f.pc \in {"fetch", "text", "json", "sleep"}
       => /\ f.nAttempts = f.attempt + 1
          /\ f.attempt <= maxRetries
          /\ f.nSleeps = IF f.pc = "sleep" THEN f.nAttempts ELSE f.nAttempts - 1
  /\ f.pc = "idle" => f = IdleFrame
  /\ f.nAttempts <= maxRetries + 1
  /\ Ended(f) => f.nSleeps = f.nAttempts - 1
  /\ (Ended(f) /\ f.nAttempts <= maxRetries) => ~IsTransient(f.lastOutcome)
  /\ f.pc = "returned" => /\ f.lastOutcome.status = 200
                          /\ f.result = Returned(JSONParse(f.lastOutcome.body))

\* a step of the running call
RequestStep ==
  \/ Call
  \/ FetchRejects
  \/ TimeoutElapses
  \/ FetchResolves
  \/ TextRejects
  \/ TextResolves
  \/ JsonRejects
  \/ JsonResolves
  \/ SleepResolves
  \/ LastTextSettles

\* C24: with two calls in flight on one client, a call sleeping in backoff
\* does not stop the other: while one sleeps the other, unless ended, has a
\* step it can take, and the sleeper can be resumed whatever the other is
\* doing.  The steps of one call leave the locals of the other as they are,
\* and each call's attempts, sleeps and outcome follow from its own attempts.
C24_SleepingRequestBlocksNoOther ==
  /\ [](/\ (suspended.pc = "sleep" /\ ~Ended(Frame)) => ENABLED RequestStep
        /\ (pc = "sleep" /\ ~Ended(suspended)) => ENABLED ResumeOther
        /\ OwnOutcomesOnly(Frame)
        /\ OwnOutcomesOnly(suspended))
  /\ [][IF Frame' = suspended /\ suspended' # suspended
        THEN suspended' = Frame
        ELSE suspended' = suspended]_vars

\* one call sleeps before its third attempt after two transient failures while
\* the other, started later, has already returned after a single attempt
C24_Witness ==
  /\ suspended.pc = "sleep"
  /\ suspended.nAttempts = 2
  /\ pc = "returned"
  /\ nAttempts = 1
  /\ nSleeps = 0

\* the error class handleError chooses for a status (lines 94-102)
KindOfStatus(statusCode) ==
  IF statusCode = 401 THEN "AuthenticationError"
  ELSE IF statusCode = 400 THEN "ValidationError"
  ELSE IF statusCode = 404 THEN "NotFoundError"
  ELSE "QueryServiceError"

\* C31: streamResults sends no request before the consumer's first pull and
\* one request in all, with no attempt or sleep of request(); a response with
\* status >= 400 whose body was read ends the sequence with the error class of
\* that status and the status in it, and no record is yielded.
C31_OneLazyRequestErrorsClassified ==
  /\ spc \in {"idle", "suspendedStart"} => nStreamFetches = 0
  /\ nStreamFetches <= 1
  /\ pc = "idle" /\ nAttempts = 0 /\ nSleeps = 0
  /\ (spc = "failed" /\ IsErrorStatus(sresponse) /\ sresult # BodyReadFailed)
       => /\ sresult.kind = KindOfStatus(sresponse)
          /\ sresult.statusCode = sresponse
          /\ yielded = << >>
          /\ nReads = 0

TypeOK ==
  /\ pc \in {"idle", "fetch", "text", "json", "sleep", "lastText", "returned", "thrown"}
  /\ wpc \in {"idle", "fetch", "sleep", "returned", "thrown"}
  /\ attempt \in 0..(MaxRetries + 2)
  /\ now \in 0..ClockCap
====
